---- MODULE Spec2Model ----
(***************************************************************************)
(* A model of mongothon/schema.py: the schema-format verifier, the        *)
(* document validator, the defaults applier and the virtual-field         *)
(* registry of a Schema.                                                   *)
(*                                                                         *)
(* Python objects are records [kind, val]: kind is the object's class and  *)
(* val its content.  A dict is a function from keys (strings) to objects,  *)
(* a list a sequence of objects.  The doc_spec of a Schema is kept as the  *)
(* sequence of its (field, spec) items in the order iteritems() yields     *)
(* them.  An operation that can raise returns a record whose exc field     *)
(* names the exception ("none" when it returns normally).                  *)
(***************************************************************************)
EXTENDS Integers, Sequences, FiniteSets, TLC

\* schema:   the Schema the operations are called on
\* instance: the document passed to validate and apply_defaults
\* op:       the last operation called ("new" after construction)
\* result:   what the last operation raised or returned
\* errors:   the errors dict built by the last validate
\* trace:    the steps the last operation took
\* passes:   the number of apply_defaults calls made
\* virtuals: schema._virtuals, a dict from field names to VirtualField objects
\* heap:     the attributes of each VirtualField object created
\* history:  per virtual field name, what the calls that returned normally gave:
\*           the object returned first, and whether a getter, a setter was passed
\* prior:    what the last apply_defaults or virtual call found: the document,
\*           or _virtuals and the heap
VARIABLES schema, instance, op, result, errors, trace, passes, virtuals, heap, history,
          prior

vars == <<schema, instance, op, result, errors, trace, passes, virtuals, heap, history, prior>>

(***************************************************************************)
(* Python objects                                                          *)
(***************************************************************************)
PyNone == [kind |-> "NoneType", val |-> "None"]
PyInt(n) == [kind |-> "int", val |-> n]
PyBool(b) == [kind |-> "bool", val |-> b]
PyStr(s) == [kind |-> "str", val |-> s]
PyDict(d) == [kind |-> "dict", val |-> d]
PyList(s) == [kind |-> "list", val |-> s]
PyFunc(name) == [kind |-> "function", val |-> name]
PyType(name) == [kind |-> "type", val |-> name]
PySchema(doc_spec) == [kind |-> "Schema", val |-> doc_spec]

\* The empty dict: a function with no keys.
EmptyDict == <<>>

\* isinstance(x, cls) for a class given by name; bool is a subclass of int
\* and str of basestring.
IsInstance(x, cls) ==
    \/ x.kind = cls
    \/ x.kind = "bool" /\ cls = "int"
    \/ x.kind = "str" /\ cls = "basestring"

\* Python truth value of an object (if error:, if getter:, get('required')).
Truthy(x) ==
    CASE x.kind = "NoneType" -> FALSE
      [] x.kind = "bool" -> x.val
      [] x.kind = "int" -> x.val # 0
      [] x.kind = "str" -> x.val # ""
      [] x.kind = "dict" -> DOMAIN x.val # {}
      [] x.kind = "list" -> Len(x.val) > 0
      [] OTHER -> TRUE

\* dict.get(key, default)
DictGet(d, key, default) == IF key \in DOMAIN d THEN d[key] ELSE default

\* d[key] = value
DictSet(d, key, value) == [k \in DOMAIN d \cup {key} |-> IF k = key THEN value ELSE d[k]]

(***************************************************************************)
(* Mixed and the supported types                                           *)
(***************************************************************************)
\* An instance of Mixed: self.types is the set of the enclosed classes.
Mixed(types) == [kind |-> "Mixed", val |-> types]

is_instance_of_enclosed_type(self, value) ==
    \E mtype \in self.val : IsInstance(value, mtype)

SUPPORTED_TYPES == {"basestring", "int", "float", "datetime", "long", "bool", "Mixed"}

\* x in SUPPORTED_TYPES: x is one of the listed class objects.
InSupportedTypes(x) == x.kind = "type" /\ x.val \in SUPPORTED_TYPES

_append_path(prefix, field) ==
    IF prefix # "" THEN prefix \o "." \o field ELSE field

(***************************************************************************)
(* Functions a declaration can hold, by name: len(getargspec(fn).args) and *)
(* what a call returns.                                                    *)
(***************************************************************************)
NumArgs(fn) ==
    CASE fn \in {"gen_one", "gen_none"} -> 0
      [] fn \in {"v_pass", "v_empty", "v_fail_a", "v_fail_b", "v_positive", "getter"} -> 1
      [] fn \in {"two_args", "setter"} -> 2

\* What validator fn returns for value: None or '' (falsy), or a message.
CallValidator(fn, value) ==
    CASE fn = "v_pass" -> PyNone
      [] fn = "v_empty" -> PyStr("")
      [] fn = "v_fail_a" -> PyStr("error a")
      [] fn = "v_fail_b" -> PyStr("error b")
      [] fn = "v_positive" ->
            IF value.kind = "int" /\ value.val > 0 THEN PyNone
            ELSE PyStr("must be positive")

\* What default generator fn returns.
CallGenerator(fn) ==
    CASE fn = "gen_one" -> PyInt(1)
      [] fn = "gen_none" -> PyNone

(***************************************************************************)
(* Schema-format verification                                              *)
(***************************************************************************)
\* The outcome of verify(): exc, and for a SchemaFormatException its
\* _message, its _path and the line of the raise statement; examined lists
\* the paths of the fields the walk reached, in order.
Returned == [exc |-> "none", message |-> "", path |-> "", line |-> 0]

SchemaFormatException(before, path, after, line) ==
    [exc |-> "SchemaFormatException", message |-> before \o path \o after,
     path |-> path, line |-> line]

TypeError(line) == [exc |-> "TypeError", message |-> "", path |-> "", line |-> line]

_verify_validator(validator, path) ==
    IF ~IsInstance(validator, "function")
    THEN SchemaFormatException("Invalid validations for ", path, "", 125)
    ELSE IF NumArgs(validator.val) # 1
    THEN SchemaFormatException("Invalid validations for ", path, "", 130)
    ELSE Returned

RECURSIVE VerifyValidators(_, _, _)
\* for validator in validates: _verify_validator(validator, path)
VerifyValidators(validates, i, path) ==
    IF i > Len(validates) THEN Returned
    ELSE LET r == _verify_validator(validates[i], path)
         IN  IF r.exc # "none" THEN r ELSE VerifyValidators(validates, i + 1, path)

SpecKeysMessage == "Unsupported field spec item at "

RECURSIVE _verify_schema(_, _)
RECURSIVE VerifyFields(_, _, _)
RECURSIVE _verify_field_spec(_, _)

\* The checks of _verify_field_spec after the nested-Schema branch.
VerifyValidates(spec, path) ==
    IF "validates" \in DOMAIN spec
    THEN IF spec["validates"].kind = "list"
         THEN VerifyValidators(spec["validates"].val, 1, path)
         ELSE _verify_validator(spec["validates"], path)
    ELSE Returned

VerifyDefault(spec, path) ==
    IF "default" \in DOMAIN spec
    THEN IF spec["type"].kind # "type"
         THEN TypeError(112)
         ELSE IF ~(IsInstance(spec["default"], spec["type"].val)
                   \/ IsInstance(spec["default"], "function"))
         THEN SchemaFormatException("Default value for ", path,
                                    " is not of the nominated type.", 113)
         ELSE Returned
    ELSE Returned

VerifyKeys(spec, path) ==
    IF ~(DOMAIN spec \subseteq {"type", "required", "validates", "default"})
    THEN SchemaFormatException(SpecKeysMessage, path, ". Items: ...", 117)
    ELSE Returned

_verify_field_spec(spec, path) ==
    IF "required" \in DOMAIN spec /\ ~IsInstance(spec["required"], "bool")
    THEN [out |-> SchemaFormatException("", path,
                     " required declaration should be True or False", 80),
          examined |-> <<>>]
    ELSE IF "type" \notin DOMAIN spec
    THEN [out |-> SchemaFormatException("", path, " has no type declared.", 84),
          examined |-> <<>>]
    ELSE IF IsInstance(spec["type"], "Schema")
    THEN IF ~(DOMAIN spec \subseteq {"type", "required"})
         THEN [out |-> SchemaFormatException(SpecKeysMessage, path, ". Items: ...", 91),
               examined |-> <<>>]
         ELSE _verify_schema(spec["type"], path)
    ELSE IF ~InSupportedTypes(spec["type"]) /\ ~IsInstance(spec["type"], "Mixed")
    THEN [out |-> SchemaFormatException("", path,
                     " is not declared with a valid type.", 99),
          examined |-> <<>>]
    ELSE LET v == VerifyValidates(spec, path)
             d == VerifyDefault(spec, path)
         IN  [out |-> IF v.exc # "none" THEN v
                      ELSE IF d.exc # "none" THEN d
                      ELSE VerifyKeys(spec, path),
              examined |-> <<>>]

\* One iteration of the loop of _verify_schema over doc_spec.iteritems(),
\* from item i on.
VerifyFields(doc_spec, i, path_prefix) ==
    IF i > Len(doc_spec) THEN [out |-> Returned, examined |-> <<>>]
    ELSE
      LET field == doc_spec[i][1]
          spec == doc_spec[i][2]
          path == _append_path(path_prefix, field)
          here ==
            IF IsInstance(spec, "dict") THEN _verify_field_spec(spec.val, path)
            ELSE IF IsInstance(spec, "list")
            THEN IF Len(spec.val) = 0 \/ Len(spec.val) > 1
                 THEN [out |-> SchemaFormatException(
                          "Exactly one type must be declared for the embedded collection at ",
                          path, "", 55),
                       examined |-> <<>>]
                 ELSE IF IsInstance(spec.val[1], "Schema")
                 THEN _verify_schema(spec.val[1], path)
                 ELSE IF ~InSupportedTypes(spec.val[1])
                 THEN [out |-> SchemaFormatException("Embedded collection at ", path,
                                  " not described using a Schema object.", 66),
                       examined |-> <<>>]
                 ELSE [out |-> Returned, examined |-> <<>>]
            ELSE [out |-> SchemaFormatException("Invalid field definition for ", path, "", 72),
                  examined |-> <<>>]
      IN  IF here.out.exc # "none"
          THEN [out |-> here.out, examined |-> <<path>> \o here.examined]
          ELSE LET rest == VerifyFields(doc_spec, i + 1, path_prefix)
               IN  [out |-> rest.out,
                    examined |-> <<path>> \o here.examined \o rest.examined]

_verify_schema(sch, path_prefix) == VerifyFields(sch.val, 1, path_prefix)

\* Schema.verify()
verify(self) == _verify_schema(self, "")

(***************************************************************************)
(* Document validation                                                     *)
(*                                                                         *)
(* The walk threads a record st: errors is the errors dict, trace the      *)
(* sequence of the steps taken.  A step names the position it is about:    *)
(* the sequence of field names and list indexes leading to it.             *)
(***************************************************************************)
Step(ev, pos, path, note) == [ev |-> ev, pos |-> pos, path |-> path, note |-> note]

Log(st, ev, pos, path, note) ==
    [errors |-> st.errors, trace |-> Append(st.trace, Step(ev, pos, path, note))]

\* errors.setdefault(path, message): the first message for a path is kept.
SetErrorKeepFirst(st, pos, path, message) ==
    [errors |-> IF path \in DOMAIN st.errors THEN st.errors
                ELSE DictSet(st.errors, path, message),
     trace |-> Append(st.trace, Step("error", pos, path, message.val))]

\* errors[path] = message
SetError(st, pos, path, message) ==
    [errors |-> DictSet(st.errors, path, message),
     trace |-> Append(st.trace, Step("error", pos, path, message.val))]

\* repr of a class, as format() renders it.
TypeRepr(cls) == "<type '" \o cls \o "'>"

RECURSIVE ApplyValidations(_, _, _, _, _, _)
\* for validation in validations: apply(validation)
ApplyValidations(validations, i, value, path, st, pos) ==
    IF i > Len(validations) THEN st
    ELSE LET fn == validations[i]
             error == CallValidator(fn.val, value)
             called == Log(st, "validator", pos, path, fn.val)
         IN  ApplyValidations(validations, i + 1, value, path,
                 IF Truthy(error) THEN SetError(called, pos, path, error) ELSE called,
                 pos)

\* _validate_value from the lookup of 'validates' on.
RunValidations(value, field_spec, path, st, pos) ==
    LET validations == DictGet(field_spec, "validates", PyNone)
    IN  IF validations.kind = "NoneType" THEN st
        ELSE IF IsInstance(validations, "list")
        THEN ApplyValidations(validations.val, 1, value, path, st, pos)
        ELSE ApplyValidations(<<validations>>, 1, value, path, st, pos)

RECURSIVE _validate_instance_against_schema(_, _, _, _, _)
RECURSIVE ValidateFields(_, _, _, _, _, _)
RECURSIVE ValidateField(_, _, _, _, _)
RECURSIVE ValidateItems(_, _, _, _, _, _)
RECURSIVE _validate_value(_, _, _, _, _)

\* field_spec.get('required', True): the lookup with the wrong default.
RequiredDefaultTrue(field_spec) == Truthy(DictGet(field_spec, "required", PyBool(TRUE)))

\* field_spec.get('required', False)
Required(field_spec) == Truthy(DictGet(field_spec, "required", PyBool(FALSE)))

_validate_value(value, field_spec, path, st, pos) ==
    IF value.kind = "NoneType"
    THEN IF Required(field_spec)
         THEN SetError(st, pos, path, PyStr(path \o " is required."))
         ELSE st
    ELSE
      LET field_type == field_spec["type"]
      IN  IF IsInstance(field_type, "Schema")
          THEN IF IsInstance(value, "dict")
               THEN _validate_instance_against_schema(value, field_type, st, path, pos)
               ELSE SetError(st, pos, path,
                             PyStr(path \o " should be an embedded document"))
          ELSE IF IsInstance(field_type, "Mixed")
          THEN IF ~is_instance_of_enclosed_type(field_type, value)
               THEN SetError(Log(st, "typecheck", pos, path, "fail"), pos, path,
                             PyStr("Field should be one of the types specified."))
               ELSE RunValidations(value, field_spec, path,
                                   Log(st, "typecheck", pos, path, "pass"), pos)
          ELSE IF field_type # PyType("Mixed")
          THEN IF ~IsInstance(value, field_type.val)
               THEN SetError(Log(st, "typecheck", pos, path, "fail"), pos, path,
                             PyStr("Field should be of type " \o TypeRepr(field_type.val)))
               ELSE RunValidations(value, field_spec, path,
                                   Log(st, "typecheck", pos, path, "pass"), pos)
          ELSE RunValidations(value, field_spec, path, st, pos)

\* for i, item in enumerate(value), from the item at index i - 1 on.
ValidateItems(value, i, spec, path, st, pos) ==
    IF i > Len(value) THEN st
    ELSE
      LET item == value[i]
          instance_path == path \o "." \o ToString(i - 1)
          item_pos == Append(pos, ToString(i - 1))
          seen == Log(st, "element", item_pos, instance_path, "")
          after ==
            IF IsInstance(spec[1], "Schema")
            THEN _validate_instance_against_schema(item, spec[1], seen,
                                                   instance_path, item_pos)
            ELSE IF ~IsInstance(item, spec[1].val)
            THEN SetError(seen, item_pos, instance_path,
                          PyStr("List item is of incorrect type"))
            ELSE seen
      IN  ValidateItems(value, i + 1, spec, path, after, pos)

\* The body of the loop over schema.doc_spec.iteritems() for one item.
ValidateField(inst, item, st, path_prefix, pos) ==
    LET field == item[1]
        spec == item[2]
        value == DictGet(inst, field, PyNone)
        path == _append_path(path_prefix, field)
        field_pos == Append(pos, field)
        seen == Log(st, "field", field_pos, path, "")
    IN  IF IsInstance(spec, "dict")
        THEN _validate_value(value, spec.val, path, seen, field_pos)
        ELSE IF IsInstance(spec, "list")
        THEN IF value.kind # "NoneType"
             THEN IF ~IsInstance(value, "list")
                  THEN SetError(seen, field_pos, path, PyStr("Expected a list."))
                  ELSE ValidateItems(value.val, 1, spec.val, path, seen, field_pos)
             ELSE seen
        ELSE seen

\* The loop that ends at the first item that leaves an error.
ValidateFieldsStopAtFirst(inst, doc_spec, i, st, path_prefix, pos) ==
    IF i > Len(doc_spec) \/ DOMAIN st.errors # {} THEN st
    ELSE ValidateFields(inst, doc_spec, i + 1,
                        ValidateField(inst, doc_spec[i], st, path_prefix, pos),
                        path_prefix, pos)

\* The loop over schema.doc_spec.iteritems(), from item i on.
ValidateFields(inst, doc_spec, i, st, path_prefix, pos) ==
    IF i > Len(doc_spec) THEN st
    ELSE ValidateFields(inst, doc_spec, i + 1,
                        ValidateField(inst, doc_spec[i], st, path_prefix, pos),
                        path_prefix, pos)

_validate_instance_against_schema(inst, sch, st, path_prefix, pos) ==
    IF ~IsInstance(inst, "dict")
    THEN SetError(st, pos, path_prefix,
                  PyStr("Expected instance of dict to validate against schema."))
    ELSE ValidateFields(inst.val, sch.val, 1, Log(st, "document", pos, path_prefix, ""),
                        path_prefix, pos)

\* Schema.validate(instance): the errors collected, the steps taken, and
\* the exception raised.
validate(self, inst) ==
    LET st == _validate_instance_against_schema(
                  inst, self, [errors |-> EmptyDict, trace |-> <<>>], "", <<>>)
    IN  [errors |-> st.errors,
         trace |-> st.trace,
         exc |-> IF Cardinality(DOMAIN st.errors) > 0 THEN "ValidationException"
                 ELSE "none"]

(***************************************************************************)
(* Defaults                                                                *)
(*                                                                         *)
(* The walk returns the document as the in-place updates left it, the      *)
(* steps taken (a "generator" step per default() call, a "default" step    *)
(* per assignment) and the exception that ended it.                        *)
(***************************************************************************)
\* field in instance: "yes", "no", or "TypeError" for an object that is no
\* container.  A str holds field as a substring; the strings documents
\* hold here are single characters, which hold field only by being it.
Contains(inst, field) ==
    CASE inst.kind = "dict" -> IF field \in DOMAIN inst.val THEN "yes" ELSE "no"
      [] inst.kind = "list" ->
            IF \E i \in 1..Len(inst.val) : inst.val[i] = PyStr(field) THEN "yes" ELSE "no"
      [] inst.kind = "str" -> IF inst.val = field THEN "yes" ELSE "no"
      [] OTHER -> "TypeError"

Walked(inst, steps, exc) == [inst |-> inst, trace |-> steps, exc |-> exc]

RECURSIVE _apply_schema_defaults(_, _, _, _)
RECURSIVE ApplyDefaultFields(_, _, _, _, _)
RECURSIVE ApplyDefaultItems(_, _, _, _, _)

\* for item in value: _apply_schema_defaults(spec[0], item), from item i on.
ApplyDefaultItems(sch, items, i, steps, pos) ==
    IF i > Len(items) THEN Walked(items, steps, "none")
    ELSE LET r == _apply_schema_defaults(sch, items[i], steps,
                                         Append(pos, ToString(i - 1)))
             done == [items EXCEPT ![i] = r.inst]
         IN  IF r.exc # "none" THEN Walked(done, r.trace, r.exc)
             ELSE ApplyDefaultItems(sch, done, i + 1, r.trace, pos)

\* The value of a field that is in the instance, after the recursion into it.
ApplyNested(spec, value, steps, pos) ==
    IF IsInstance(spec, "list")
    THEN IF IsInstance(value, "list") /\ IsInstance(spec.val[1], "Schema")
         THEN LET r == ApplyDefaultItems(spec.val[1], value.val, 1, steps, pos)
              IN  Walked(PyList(r.inst), r.trace, r.exc)
         ELSE Walked(value, steps, "none")
    ELSE IF IsInstance(spec.val["type"], "Schema") /\ IsInstance(value, "dict")
    THEN _apply_schema_defaults(spec.val["type"], value, steps, pos)
    ELSE Walked(value, steps, "none")

\* The default of a field that is not in the instance.
ApplyDefault(inst, field, spec, steps, pos) ==
    IF IsInstance(spec, "dict") /\ "default" \in DOMAIN spec.val
    THEN LET default == spec.val["default"]
         IN  IF IsInstance(default, "function")
             THEN IF NumArgs(default.val) # 0
                  THEN Walked(inst, steps, "TypeError")
                  ELSE LET called == Append(steps, Step("generator", pos, "", default.val))
                       IN  IF inst.kind # "dict"
                           THEN Walked(inst, called, "TypeError")
                           ELSE Walked(PyDict(DictSet(inst.val, field,
                                                      CallGenerator(default.val))),
                                       Append(called, Step("default", pos, "", "")),
                                       "none")
             ELSE IF inst.kind # "dict"
             THEN Walked(inst, steps, "TypeError")
             ELSE Walked(PyDict(DictSet(inst.val, field, default)),
                         Append(steps, Step("default", pos, "", "")), "none")
    ELSE Walked(inst, steps, "none")

\* The loop over schema.doc_spec.iteritems(), from item i on.
ApplyDefaultFields(doc_spec, i, inst, steps, pos) ==
    IF i > Len(doc_spec) THEN Walked(inst, steps, "none")
    ELSE
      LET field == doc_spec[i][1]
          spec == doc_spec[i][2]
          found == Contains(inst, field)
          field_pos == Append(pos, field)
          r == IF found = "TypeError" THEN Walked(inst, steps, "TypeError")
               ELSE IF found = "yes"
               THEN IF inst.kind # "dict"
                    THEN Walked(inst, steps, "TypeError")
                    ELSE LET n == ApplyNested(spec, inst.val[field], steps, field_pos)
                         IN  Walked(PyDict(DictSet(inst.val, field, n.inst)), n.trace, n.exc)
               ELSE ApplyDefault(inst, field, spec, steps, field_pos)
      IN  IF r.exc # "none" THEN r
          ELSE ApplyDefaultFields(doc_spec, i + 1, r.inst, r.trace, pos)

_apply_schema_defaults(sch, inst, steps, pos) ==
    ApplyDefaultFields(sch.val, 1, inst, steps, pos)

\* Schema.apply_defaults(instance)
apply_defaults(self, inst) == _apply_schema_defaults(self, inst, <<>>, <<>>)

(***************************************************************************)
(* Virtual fields                                                          *)
(*                                                                         *)
(* A VirtualField object is its index in heap, where its attributes are    *)
(* kept: a dict holding _getter and _setter once they were assigned.       *)
(***************************************************************************)
\* VirtualField.get(fn) and VirtualField.set(fn) on object self of heap h:
\* the heap after the call and the exception raised.
get(h, self, fn) ==
    IF NumArgs(fn.val) # 1 THEN [heap |-> h, exc |-> "ValueError"]
    ELSE [heap |-> [h EXCEPT ![self] = DictSet(h[self], "_getter", fn)], exc |-> "none"]

set(h, self, fn) ==
    IF NumArgs(fn.val) # 2 THEN [heap |-> h, exc |-> "ValueError"]
    ELSE [heap |-> [h EXCEPT ![self] = DictSet(h[self], "_setter", fn)], exc |-> "none"]

\* has_getter() and has_setter(): the attribute compared with None.
HasAttribute(h, self, attr) ==
    IF attr \notin DOMAIN h[self] THEN [exc |-> "AttributeError", value |-> FALSE]
    ELSE [exc |-> "none", value |-> h[self][attr] # PyNone]

has_getter(h, self) == HasAttribute(h, self, "_getter")

has_setter(h, self) == HasAttribute(h, self, "_setter")

\* Schema.virtual(field_name, getter, setter): _virtuals and the heap after
\* the call, the exception raised, and the object returned.
virtual(vs, h, field_name, getter, setter) ==
    LET made == field_name \notin DOMAIN vs
        vs1 == IF made THEN DictSet(vs, field_name, Len(h) + 1) ELSE vs
        h1 == IF made THEN Append(h, EmptyDict) ELSE h
        virtual_field == vs1[field_name]
        g == IF Truthy(getter) THEN get(h1, virtual_field, getter)
             ELSE [heap |-> h1, exc |-> "none"]
        t == IF g.exc # "none" THEN g
             ELSE IF Truthy(setter) THEN set(g.heap, virtual_field, setter)
             ELSE g
    IN  [virtuals |-> vs1, heap |-> t.heap, exc |-> t.exc, value |-> virtual_field]

(***************************************************************************)
(* Declarations the verifier is run on                                     *)
(***************************************************************************)
\* Bounds of the model.
MaxFields == 2
MaxListLen == 2

\* A model marker (not a Python object): the key is left out of the dict.
Absent == [kind |-> "absent", val |-> ""]

\* The dict holding the keys whose value is not Absent.
MkDict(all) == [k \in {key \in DOMAIN all : all[key] # Absent} |-> all[k]]

MkSpec(t, r, v, d, x) ==
    PyDict(MkDict([type |-> t, required |-> r, validates |-> v, default |-> d, foo |-> x]))

IntField == MkSpec(PyType("int"), Absent, Absent, Absent, Absent)
NoTypeField == MkSpec(Absent, PyBool(TRUE), Absent, Absent, Absent)

GoodNested == PySchema(<< <<"b", IntField>> >>)
BadNested == PySchema(<< <<"b", NoTypeField>> >>)
MixedIntStr == Mixed({"int", "basestring"})

VerifyRecordSpecs ==
    { MkSpec(t, r, v, d, x) :
        t \in {Absent, PyType("int"), PyType("Mixed"), PyType("str"), MixedIntStr,
               GoodNested, BadNested},
        r \in {Absent, PyBool(TRUE), PyInt(1)},
        v \in {Absent, PyFunc("v_pass"), PyList(<<PyFunc("v_pass"), PyFunc("two_args")>>),
               PyInt(3)},
        d \in {Absent, PyInt(0), PyStr("x"), PyFunc("gen_one")},
        x \in {Absent, PyInt(1)} }

VerifyOtherSpecs ==
    { PyList(<<>>), PyList(<<PyType("int")>>), PyList(<<PyType("int"), PyType("int")>>),
      PyList(<<PyType("str")>>), PyList(<<GoodNested>>), PyList(<<BadNested>>),
      PyInt(1) }

VerifySpecs == VerifyRecordSpecs \cup VerifyOtherSpecs
FollowingSpecs == {IntField, NoTypeField}

\* Field names by position in doc_spec.
FieldNames == <<"a", "b", "c", "d">>

\* The schemas of n fields: any spec first, then specs of FollowingSpecs.
RECURSIVE DocSpecs(_, _, _)
DocSpecs(n, first, following) ==
    IF n = 1 THEN { << <<FieldNames[1], s>> >> : s \in first }
    ELSE { ds \o << <<FieldNames[n], s>> >> :
             ds \in DocSpecs(n - 1, first, following), s \in following }

VerifySchemas ==
    { PySchema(ds) :
        ds \in UNION { DocSpecs(n, VerifySpecs, FollowingSpecs) : n \in 1..MaxFields } }

(***************************************************************************)
(* Schemas and documents the validator is run on                           *)
(***************************************************************************)
Validators ==
    { Absent, PyFunc("v_positive"),
      PyList(<<PyFunc("v_fail_a"), PyFunc("v_fail_b")>>),
      PyList(<<PyFunc("v_fail_a"), PyFunc("v_positive"), PyFunc("v_empty")>>) }

\* The nested schema: a required validated int and a collection of ints.
NestedDoc ==
    PySchema(<< <<"b", MkSpec(PyType("int"), PyBool(TRUE), PyFunc("v_positive"), Absent, Absent)>>,
                <<"c", PyList(<<PyType("int")>>)>> >>)

ValidateSpecs ==
    { MkSpec(t, r, v, Absent, Absent) :
        t \in {PyType("int"), PyType("Mixed"), MixedIntStr},
        r \in {Absent, PyBool(TRUE)},
        v \in Validators }
    \cup { MkSpec(PyType("basestring"), PyBool(FALSE), Absent, Absent, Absent),
           MkSpec(NestedDoc, Absent, Absent, Absent, Absent),
           MkSpec(NestedDoc, PyBool(TRUE), Absent, Absent, Absent),
           PyList(<<PyType("int")>>),
           PyList(<<NestedDoc>>) }

FollowingValidateSpecs ==
    { MkSpec(PyType("int"), PyBool(TRUE), Absent, Absent, Absent),
      MkSpec(PyType("int"), Absent, PyFunc("v_positive"), Absent, Absent) }

\* The names a second field is given: a plain one, and one that holds a dot.
SecondNames == {"b", "a.b"}

Rename(ds, name) == [ds EXCEPT ![2][1] = name]

ValidateDocSpecs ==
    UNION { IF n < 2 THEN DocSpecs(n, ValidateSpecs, FollowingValidateSpecs)
            ELSE { Rename(ds, name) :
                     ds \in DocSpecs(n, ValidateSpecs, FollowingValidateSpecs),
                     name \in SecondNames }
            : n \in 1..MaxFields }

\* The schemas verify() accepts.
ValidateSchemas ==
    { sch \in { PySchema(ds) : ds \in ValidateDocSpecs } : verify(sch).out.exc = "none" }

RECURSIVE ListsOf(_, _)
\* The lists of at most n items of elems.
ListsOf(elems, n) ==
    IF n = 0 THEN { <<>> }
    ELSE ListsOf(elems, n - 1)
         \cup { Append(l, e) : l \in { m \in ListsOf(elems, n - 1) : Len(m) = n - 1 },
                               e \in elems }

Scalars == { PyNone, PyInt(1), PyInt(0), PyStr("x"), PyBool(TRUE) }

NestedValues ==
    { PyDict(MkDict([b |-> vb, c |-> vc])) :
        vb \in {Absent, PyNone, PyInt(1), PyInt(0), PyStr("x")},
        vc \in {Absent, PyList(<<PyInt(1), PyStr("x")>>), PyInt(1)} }

ListItems == { PyInt(1), PyStr("x"), PyDict(MkDict([c |-> PyInt(0)])) }

ListValues == { PyList(l) : l \in ListsOf(ListItems, MaxListLen) }

FirstValues == Scalars \cup NestedValues \cup ListValues
FollowingValues == { PyNone, PyInt(1), PyInt(0), PyStr("x") }

RECURSIVE InstanceDicts(_, _, _, _)
\* The dicts giving each of the first n fields of doc_spec a value, or none.
InstanceDicts(doc_spec, n, first, following) ==
    IF n = 0 THEN { EmptyDict }
    ELSE { IF v = Absent THEN d ELSE DictSet(d, doc_spec[n][1], v) :
             d \in InstanceDicts(doc_spec, n - 1, first, following),
             v \in (IF n = 1 THEN first ELSE following) \cup {Absent} }

\* The documents validate is given: mappings, and two that are no mapping.
InstancesOf(sch, first, following) ==
    { PyDict(d) : d \in InstanceDicts(sch.val, Len(sch.val), first, following) }
    \cup { PyInt(5), PyNone }

(***************************************************************************)
(* Schemas and documents the defaults are applied to                       *)
(***************************************************************************)
MaxPasses == 2

\* The nested schema: a required int with a generated default and an int
\* with a literal one.
NestedDefaults ==
    PySchema(<< <<"b", MkSpec(PyType("int"), PyBool(TRUE), Absent, PyFunc("gen_one"), Absent)>>,
                <<"c", MkSpec(PyType("int"), Absent, Absent, PyInt(0), Absent)>> >>)

DefaultSpecs ==
    { MkSpec(PyType("int"), r, Absent, d, Absent) :
        r \in {Absent, PyBool(TRUE)},
        d \in {Absent, PyInt(0), PyFunc("gen_one"), PyFunc("gen_none")} }
    \cup { MkSpec(NestedDefaults, Absent, Absent, Absent, Absent),
           MkSpec(NestedDefaults, PyBool(TRUE), Absent, Absent, Absent),
           PyList(<<NestedDefaults>>),
           PyList(<<PyType("int")>>) }

FollowingDefaultSpecs ==
    { MkSpec(PyType("int"), PyBool(TRUE), Absent, PyFunc("gen_one"), Absent),
      MkSpec(PyType("int"), PyBool(TRUE), Absent, PyInt(0), Absent) }

DefaultSchemas ==
    { sch \in { PySchema(ds) :
                  ds \in UNION { DocSpecs(n, DefaultSpecs, FollowingDefaultSpecs) :
                                   n \in 1..MaxFields } } :
        verify(sch).out.exc = "none" }

(***************************************************************************)
(* Virtual field registrations                                             *)
(***************************************************************************)
VirtualNames == {"full_name", "age"}
Getters == { PyNone, PyFunc("getter"), PyFunc("two_args") }
Setters == { PyNone, PyFunc("setter"), PyFunc("v_pass") }

NoHistory == [object |-> 0, getter |-> FALSE, setter |-> FALSE]

(***************************************************************************)
(* State machine                                                           *)
(***************************************************************************)
Idle == [exc |-> "none", message |-> "", path |-> "", line |-> 0, value |-> 0]

InitVerify ==
    /\ schema \in VerifySchemas
    /\ instance = PyNone
    /\ op = "new"
    /\ result = Idle
    /\ errors = EmptyDict
    /\ trace = <<>>
    /\ passes = 0
    /\ virtuals = EmptyDict
    /\ heap = <<>>
    /\ history = EmptyDict
    /\ prior = PyNone

\* schema.verify()
Verify ==
    /\ op = "new"
    /\ LET r == verify(schema)
       IN  /\ result' = [exc |-> r.out.exc, message |-> r.out.message, path |-> r.out.path,
                          line |-> r.out.line, value |-> 0]
           /\ trace' = r.examined
    /\ op' = "verify"
    /\ UNCHANGED <<schema, instance, errors, passes, virtuals, heap, history, prior>>

NextVerify == Verify

SpecVerify == InitVerify /\ [][NextVerify]_vars

InitValidate ==
    /\ schema \in ValidateSchemas
    /\ instance \in InstancesOf(schema, FirstValues, FollowingValues)
    /\ op = "new"
    /\ result = Idle
    /\ errors = EmptyDict
    /\ trace = <<>>
    /\ passes = 0
    /\ virtuals = EmptyDict
    /\ heap = <<>>
    /\ history = EmptyDict
    /\ prior = PyNone

\* schema.validate(instance)
Validate ==
    /\ op \in {"new", "apply_defaults"}
    /\ result.exc = "none"
    /\ LET r == validate(schema, instance)
       IN  /\ errors' = r.errors
           /\ trace' = r.trace
           /\ result' = [Idle EXCEPT !.exc = r.exc]
    /\ op' = "validate"
    /\ UNCHANGED <<schema, instance, passes, virtuals, heap, history, prior>>

NextValidate == Validate

SpecValidate == InitValidate /\ [][NextValidate]_vars

InitDefaults ==
    /\ schema \in DefaultSchemas
    /\ instance \in { i \in InstancesOf(schema, FirstValues, FollowingValues) :
                        i.kind = "dict" }
    /\ op = "new"
    /\ result = Idle
    /\ errors = EmptyDict
    /\ trace = <<>>
    /\ passes = 0
    /\ virtuals = EmptyDict
    /\ heap = <<>>
    /\ history = EmptyDict
    /\ prior = PyNone

\* schema.apply_defaults(instance)
ApplyDefaults ==
    /\ op \in {"new", "apply_defaults"}
    /\ result.exc = "none"
    /\ passes < MaxPasses
    /\ LET r == apply_defaults(schema, instance)
       IN  /\ instance' = r.inst
           /\ trace' = r.trace
           /\ result' = [Idle EXCEPT !.exc = r.exc]
    /\ passes' = passes + 1
    /\ op' = "apply_defaults"
    /\ prior' = instance
    /\ UNCHANGED <<schema, errors, virtuals, heap, history>>

NextDefaults == ApplyDefaults \/ Validate

SpecDefaults == InitDefaults /\ [][NextDefaults]_vars

InitVirtual ==
    /\ schema = PySchema(<< <<"a", IntField>> >>)
    /\ instance = PyNone
    /\ op = "new"
    /\ result = Idle
    /\ errors = EmptyDict
    /\ trace = <<>>
    /\ passes = 0
    /\ virtuals = EmptyDict
    /\ heap = <<>>
    /\ history = EmptyDict
    /\ prior = PyNone

Call(name, field_name, getter, setter) ==
    [ev |-> name, name |-> field_name, getter |-> getter, setter |-> setter]

\* schema.virtual(field_name, getter, setter)
Virtual(field_name, getter, setter) ==
    LET r == virtual(virtuals, heap, field_name, getter, setter)
        before == DictGet(history, field_name, NoHistory)
    IN  /\ virtuals' = r.virtuals
        /\ heap' = r.heap
        /\ result' = [Idle EXCEPT !.exc = r.exc,
                                  !.value = IF r.exc = "none" THEN r.value ELSE 0]
        /\ history' =
             IF r.exc # "none" THEN history
             ELSE DictSet(history, field_name,
                          [object |-> IF before.object = 0 THEN r.value ELSE before.object,
                           getter |-> before.getter \/ Truthy(getter),
                           setter |-> before.setter \/ Truthy(setter)])
        /\ op' = "virtual"
        /\ trace' = <<Call("virtual", field_name, getter, setter)>>
        /\ prior' = [virtuals |-> virtuals, heap |-> heap]
        /\ UNCHANGED <<schema, instance, errors, passes>>

\* schema.virtuals[field_name].has_getter()
HasGetter(field_name) ==
    /\ field_name \in DOMAIN virtuals
    /\ LET r == has_getter(heap, virtuals[field_name])
       IN  result' = [Idle EXCEPT !.exc = r.exc, !.value = r.value]
    /\ op' = "has_getter"
    /\ trace' = <<Call("has_getter", field_name, PyNone, PyNone)>>
    /\ UNCHANGED <<schema, instance, errors, passes, virtuals, heap, history, prior>>

\* schema.virtuals[field_name].has_setter()
HasSetter(field_name) ==
    /\ field_name \in DOMAIN virtuals
    /\ LET r == has_setter(heap, virtuals[field_name])
       IN  result' = [Idle EXCEPT !.exc = r.exc, !.value = r.value]
    /\ op' = "has_setter"
    /\ trace' = <<Call("has_setter", field_name, PyNone, PyNone)>>
    /\ UNCHANGED <<schema, instance, errors, passes, virtuals, heap, history, prior>>

NextVirtual ==
    \/ \E field_name \in VirtualNames, getter \in Getters, setter \in Setters :
          Virtual(field_name, getter, setter)
    \/ \E field_name \in VirtualNames : HasGetter(field_name)
    \/ \E field_name \in VirtualNames : HasSetter(field_name)

SpecVirtual == InitVirtual /\ [][NextVirtual]_vars

(***************************************************************************)
(* What the properties below speak of                                      *)
(***************************************************************************)
RECURSIVE Dotted(_)
\* The dotted path of a position: its components joined by ".".
Dotted(pos) ==
    IF Len(pos) = 0 THEN ""
    ELSE IF Len(pos) = 1 THEN pos[1]
    ELSE Dotted(SubSeq(pos, 1, Len(pos) - 1)) \o "." \o pos[Len(pos)]

IsPrefix(p, q) == Len(p) <= Len(q) /\ SubSeq(q, 1, Len(p)) = p

\* The field names of the model that hold a dot.
DottedNames == {"a.b"}

RECURSIVE SchemaFieldNames(_)
\* The field names a schema declares, nested schemas included.
SchemaFieldNames(sch) ==
    UNION { LET spec == sch.val[i][2]
            IN  {sch.val[i][1]}
                \cup (IF spec.kind = "dict" /\ "type" \in DOMAIN spec.val
                         /\ spec.val["type"].kind = "Schema"
                      THEN SchemaFieldNames(spec.val["type"])
                      ELSE IF spec.kind = "list" /\ Len(spec.val) > 0
                              /\ spec.val[1].kind = "Schema"
                      THEN SchemaFieldNames(spec.val[1])
                      ELSE {})
            : i \in 1..Len(sch.val) }

DotFree(sch) == SchemaFieldNames(sch) \cap DottedNames = {}

RECURSIVE DocumentPositions(_, _, _)
\* What there is to visit in document inst (a dict) under schema sch: the
\* document, each declared field, each item of a list under an embedded
\* collection, and the same within each nested document.
DocumentPositions(sch, inst, pos) ==
    {<<"document", pos>>}
    \cup UNION {
        LET field == sch.val[i][1]
            spec == sch.val[i][2]
            value == DictGet(inst.val, field, PyNone)
            fp == Append(pos, field)
        IN  {<<"field", fp>>}
            \cup (IF spec.kind = "dict" /\ spec.val["type"].kind = "Schema"
                     /\ value.kind = "dict"
                  THEN DocumentPositions(spec.val["type"], value, fp)
                  ELSE IF spec.kind = "list" /\ value.kind = "list"
                  THEN UNION {
                         {<<"element", Append(fp, ToString(j - 1))>>}
                         \cup (IF spec.val[1].kind = "Schema" /\ value.val[j].kind = "dict"
                               THEN DocumentPositions(spec.val[1], value.val[j],
                                                      Append(fp, ToString(j - 1)))
                               ELSE {})
                         : j \in 1..Len(value.val) }
                  ELSE {})
        : i \in 1..Len(sch.val) }

RECURSIVE FieldAt(_, _, _)
\* The spec and the value of the field at position pos of document inst.
FieldAt(sch, inst, pos) ==
    LET i == CHOOSE k \in 1..Len(sch.val) : sch.val[k][1] = pos[1]
        spec == sch.val[i][2]
        value == DictGet(inst.val, pos[1], PyNone)
    IN  IF Len(pos) = 1 THEN [spec |-> spec, value |-> value]
        ELSE IF spec.kind = "dict" THEN FieldAt(spec.val["type"], value, Tail(pos))
        ELSE LET j == CHOOSE k \in 1..Len(value.val) : ToString(k - 1) = pos[2]
             IN  FieldAt(spec.val[1], value.val[j], Tail(Tail(pos)))

Steps == 1..Len(trace)
Visited == { <<trace[i].ev, trace[i].pos>> : i \in Steps }
FailingPositions == { trace[i].pos : i \in { k \in Steps : trace[k].ev = "error" } }

RECURSIVE Replay(_)
\* The errors dict the first k steps of the trace leave.
Replay(k) ==
    IF k = 0 THEN EmptyDict
    ELSE IF trace[k].ev = "error"
    THEN DictSet(Replay(k - 1), trace[k].path, PyStr(trace[k].note))
    ELSE Replay(k - 1)

WholeWalk ==
    /\ instance.kind = "dict" => DocumentPositions(schema, instance, <<>>) \subseteq Visited
    /\ DOMAIN errors = { Dotted(pos) : pos \in FailingPositions }
    /\ Cardinality(DOMAIN errors) = Cardinality(FailingPositions)
    /\ result.exc = (IF DOMAIN errors # {} THEN "ValidationException" ELSE "none")

(***************************************************************************)
(* Properties of validate                                                  *)
(***************************************************************************)
\* C1, as stated: validate walks the whole document whatever fails - every
\* declared field, nested document and list item is visited - the errors
\* dict holds exactly one entry per failing position, keyed by its dotted
\* path, and ValidationException is raised exactly when it is not empty.
C1_WholeWalkOneEntryPerPosition == op = "validate" => WholeWalk

\* C1, amended: the same, for a schema none of whose field names holds a dot.
C1_WholeWalkDotFree == (op = "validate" /\ DotFree(schema)) => WholeWalk

\* C1's case: three positions fail in one walk, one of them a field of a
\* document inside a list.
C1_Witness ==
    /\ op = "validate"
    /\ DotFree(schema)
    /\ result.exc = "ValidationException"
    /\ Cardinality(DOMAIN errors) >= 3
    /\ \E i \in Steps : trace[i].ev = "error" /\ Len(trace[i].pos) = 3

\* The steps taken at position pos or below it, the visit of pos excepted.
StepsUnder(pos) ==
    { k \in Steps : IsPrefix(pos, trace[k].pos)
                    /\ ~(trace[k].ev = "field" /\ trace[k].pos = pos) }

DeclaredRequired(spec) == "required" \in DOMAIN spec.val /\ spec.val["required"] = PyBool(TRUE)

\* The visits of record fields that hold no value.
EmptyFieldSteps ==
    { i \in Steps :
        /\ trace[i].ev = "field"
        /\ LET f == FieldAt(schema, instance, trace[i].pos)
           IN  f.spec.kind = "dict" /\ f.value.kind = "NoneType" }

\* C2: for a record field without a value validate records an error at the
\* field's path exactly when the spec has required: true; it is the only
\* step the field causes: no type check and no validator is run.
C2_RequiredOnlyWhenAbsent ==
    op = "validate" =>
      \A i \in EmptyFieldSteps :
        LET pos == trace[i].pos
            f == FieldAt(schema, instance, pos)
        IN  IF DeclaredRequired(f.spec)
            THEN /\ \E k \in Steps :
                      /\ StepsUnder(pos) = {k}
                      /\ trace[k].ev = "error"
                      /\ trace[k].path = Dotted(pos)
                      /\ trace[k].note = Dotted(pos) \o " is required."
                 /\ Dotted(pos) \in DOMAIN errors
            ELSE StepsUnder(pos) = {}

\* C2's case: one walk meets a required field without a value and a field
\* with validators, not required, without a value.
C2_Witness ==
    /\ op = "validate"
    /\ \E i \in EmptyFieldSteps :
          DeclaredRequired(FieldAt(schema, instance, trace[i].pos).spec)
    /\ \E i \in EmptyFieldSteps :
          LET f == FieldAt(schema, instance, trace[i].pos)
          IN  ~DeclaredRequired(f.spec) /\ "validates" \in DOMAIN f.spec.val

\* The validators a field spec declares, in order.
DeclaredValidators(spec) ==
    IF "validates" \notin DOMAIN spec.val THEN <<>>
    ELSE IF spec.val["validates"].kind = "list" THEN spec.val["validates"].val
    ELSE <<spec.val["validates"]>>

\* Whether value is of the type a primitive or Mixed field declares.
OfDeclaredType(spec, value) ==
    LET type == spec.val["type"]
    IN  IF type.kind = "Mixed" THEN \E t \in type.val : IsInstance(value, t)
        ELSE type.val = "Mixed" \/ IsInstance(value, type.val)

RECURSIVE ValidatorSteps(_, _, _)
\* The steps the validators from the i-th on are to cause for value: a
\* call each, followed by the message it returned if it returned one.
ValidatorSteps(validators, i, value) ==
    IF i > Len(validators) THEN <<>>
    ELSE LET said == CallValidator(validators[i].val, value)
         IN  << <<"validator", validators[i].val>> >>
             \o (IF Truthy(said) THEN << <<"error", said.val>> >> ELSE <<>>)
             \o ValidatorSteps(validators, i + 1, value)

\* The steps taken at position pos, the visit excepted, as (ev, note) pairs.
StepsAt(pos) ==
    LET at == SelectSeq(trace, LAMBDA st : st.pos = pos /\ st.ev # "field")
    IN  [k \in 1..Len(at) |-> <<at[k].ev, at[k].note>>]

\* The visits of primitive and Mixed fields that hold a value.
ValueFieldSteps ==
    { i \in Steps :
        /\ trace[i].ev = "field"
        /\ LET f == FieldAt(schema, instance, trace[i].pos)
           IN  /\ f.spec.kind = "dict"
               /\ f.spec.val["type"].kind # "Schema"
               /\ f.value.kind # "NoneType" }

\* What the validators of the field visited at step i are to report.
Reports(i) ==
    LET f == FieldAt(schema, instance, trace[i].pos)
    IN  SelectSeq(ValidatorSteps(DeclaredValidators(f.spec), 1, f.value),
                  LAMBDA e : e[1] = "error")

\* C8: for a primitive or Mixed field with a value no validator runs when
\* the type check fails; otherwise every declared validator runs, in
\* declaration order, a falsy result adds nothing and a message is written
\* at the field's path, so that after the last validator the entry at the
\* path is the message of the last validator that reported one.  The errors
\* dict is what the writes leave, a later write replacing an earlier one.
C8_ValidatorsInOrderLastWins ==
    op = "validate" =>
      /\ errors = Replay(Len(trace))
      /\ \A i \in ValueFieldSteps :
           LET pos == trace[i].pos
               f == FieldAt(schema, instance, pos)
               took == StepsAt(pos)
               last == CHOOSE k \in Steps :
                         /\ trace[k].pos = pos
                         /\ \A j \in Steps : trace[j].pos = pos => j <= k
           IN  IF ~OfDeclaredType(f.spec, f.value)
               THEN /\ Len(took) = 2
                    /\ took[1] = <<"typecheck", "fail">>
                    /\ took[2][1] = "error"
               ELSE /\ took = (IF f.spec.val["type"] = PyType("Mixed") THEN <<>>
                               ELSE << <<"typecheck", "pass">> >>)
                              \o ValidatorSteps(DeclaredValidators(f.spec), 1, f.value)
                    /\ \A k \in Steps :
                         (trace[k].pos = pos /\ trace[k].ev = "error")
                            => trace[k].path = Dotted(pos)
                    /\ Reports(i) # <<>> =>
                         Replay(last)[Dotted(pos)] = PyStr(Reports(i)[Len(Reports(i))][2])

\* C8's case: two validators of one field report a message, and the entry
\* kept is the second one's.
C8_Witness ==
    /\ op = "validate"
    /\ \E i \in ValueFieldSteps :
          /\ Len(Reports(i)) = 2
          /\ errors[Dotted(trace[i].pos)] = PyStr(Reports(i)[2][2])
          /\ Reports(i)[1][2] # Reports(i)[2][2]

(***************************************************************************)
(* Properties of verify                                                    *)
(***************************************************************************)
\* The rule a raise statement of the verifier belongs to: 1 to 7 are the
\* rules of a field spec, 8 those of an embedded collection, 9 the shape of
\* a spec.
RuleOfLine(line) ==
    CASE line = 80 -> 1
      [] line = 84 -> 2
      [] line = 91 -> 3
      [] line = 99 -> 4
      [] line \in {125, 130} -> 5
      [] line = 113 -> 6
      [] line = 117 -> 7
      [] line \in {55, 66} -> 8
      [] line = 72 -> 9
      [] OTHER -> 0

NoViolation == [rule |-> 0, path |-> ""]

IsValidator(x) == x.kind = "function" /\ NumArgs(x.val) = 1

RECURSIVE FirstViolation(_, _, _)

\* The rules of a field spec that spec breaks, the nested schema's own
\* violations aside.  A default is held against type only when type is a
\* primitive.
BrokenRules(spec) ==
    LET keys == DOMAIN spec
        nested == "type" \in keys /\ spec["type"].kind = "Schema"
    IN  { n \in 1..7 :
            CASE n = 1 -> "required" \in keys /\ spec["required"].kind # "bool"
              [] n = 2 -> "type" \notin keys
              [] n = 3 -> nested /\ ~(keys \subseteq {"type", "required"})
              [] n = 4 -> "type" \in keys /\ ~nested
                          /\ ~(InSupportedTypes(spec["type"]) \/ spec["type"].kind = "Mixed")
              [] n = 5 -> ~nested /\ "validates" \in keys
                          /\ \E k \in 1..Len(DeclaredValidators(PyDict(spec))) :
                                ~IsValidator(DeclaredValidators(PyDict(spec))[k])
              [] n = 6 -> ~nested /\ "default" \in keys /\ "type" \in keys
                          /\ spec["type"].kind = "type"
                          /\ ~(IsInstance(spec["default"], spec["type"].val)
                               \/ spec["default"].kind = "function")
              [] n = 7 -> ~nested
                          /\ ~(keys \subseteq {"type", "required", "validates", "default"}) }

Least(rules) == CHOOSE n \in rules : \A m \in rules : n <= m

\* The violation of the spec of one field: the earliest rule it breaks, or
\* the first violation of its nested schema.
ViolationOf(spec, path) ==
    IF spec.kind = "dict"
    THEN IF BrokenRules(spec.val) # {}
         THEN [rule |-> Least(BrokenRules(spec.val)), path |-> path]
         ELSE IF spec.val["type"].kind = "Schema"
         THEN FirstViolation(spec.val["type"].val, 1, path)
         ELSE NoViolation
    ELSE IF spec.kind = "list"
    THEN IF Len(spec.val) # 1 THEN [rule |-> 8, path |-> path]
         ELSE IF spec.val[1].kind = "Schema" THEN FirstViolation(spec.val[1].val, 1, path)
         ELSE IF ~InSupportedTypes(spec.val[1]) THEN [rule |-> 8, path |-> path]
         ELSE NoViolation
    ELSE [rule |-> 9, path |-> path]

\* The first violation of doc_spec from item i on, depth first.
FirstViolation(doc_spec, i, path_prefix) ==
    IF i > Len(doc_spec) THEN NoViolation
    ELSE LET path == IF path_prefix = "" THEN doc_spec[i][1]
                     ELSE path_prefix \o "." \o doc_spec[i][1]
             v == ViolationOf(doc_spec[i][2], path)
         IN  IF v.rule # 0 THEN v ELSE FirstViolation(doc_spec, i + 1, path_prefix)

ReportsFirstViolation ==
    LET v == FirstViolation(schema.val, 1, "")
    IN  v.rule # 0 =>
          /\ result.exc = "SchemaFormatException"
          /\ RuleOfLine(result.line) = v.rule
          /\ result.path = v.path
          /\ trace[Len(trace)] = v.path

\* C5: verify stops at the first violation and reports only that one: the
\* SchemaFormatException raised is the one of the earliest rule, in the
\* order 1 to 7, that the first offending field breaks, its path is that
\* field's dotted path, and no field after it is examined.
C5_FirstViolationReported == op = "verify" => ReportsFirstViolation

\* The order of the rules, where verify ends with no TypeError.
VerifyOrderUnlessTypeError ==
    (op = "verify" /\ result.exc # "TypeError") => ReportsFirstViolation

\* C6: verify has two outcomes, whatever the declaration: it returns, or it
\* raises a SchemaFormatException carrying the dotted path of the offending
\* field, a Mixed field with a default included.
C6_ReturnsOrSchemaFormatException ==
    op = "verify" =>
      \/ result.exc = "none"
      \/ /\ result.exc = "SchemaFormatException"
         /\ result.path = trace[Len(trace)]

\* Every exception verify raises but the TypeError of line 112 is a
\* SchemaFormatException at the path examined last.
VerifyOutcomesUnlessTypeError ==
    (op = "verify" /\ result.exc # "TypeError") => C6_ReturnsOrSchemaFormatException

(***************************************************************************)
(* Properties of apply_defaults                                            *)
(***************************************************************************)
RECURSIVE AbsentGeneratorFields(_, _, _)
\* The positions of the fields that document inst (a dict) lacks and whose
\* spec declares a generator as default, nested documents and the documents
\* of embedded collections included.
AbsentGeneratorFields(sch, inst, pos) ==
    UNION {
        LET field == sch.val[i][1]
            spec == sch.val[i][2]
            fp == Append(pos, field)
        IN  IF field \notin DOMAIN inst.val
            THEN IF spec.kind = "dict" /\ "default" \in DOMAIN spec.val
                    /\ spec.val["default"].kind = "function"
                 THEN {fp} ELSE {}
            ELSE LET value == inst.val[field]
                 IN  IF spec.kind = "dict" /\ spec.val["type"].kind = "Schema"
                        /\ value.kind = "dict"
                     THEN AbsentGeneratorFields(spec.val["type"], value, fp)
                     ELSE IF spec.kind = "list" /\ spec.val[1].kind = "Schema"
                             /\ value.kind = "list"
                     THEN UNION { IF value.val[j].kind = "dict"
                                  THEN AbsentGeneratorFields(spec.val[1], value.val[j],
                                                             Append(fp, ToString(j - 1)))
                                  ELSE {}
                                  : j \in 1..Len(value.val) }
                     ELSE {}
        : i \in 1..Len(sch.val) }

GeneratorSteps == { k \in Steps : trace[k].ev = "generator" }

\* C3: apply_defaults is idempotent: a second pass leaves the document as
\* the first left it and calls no generator, and a pass calls a generator
\* exactly once for each field that was absent and never for another.
C3_IdempotentOncePerAbsentField ==
    op = "apply_defaults" =>
      /\ passes >= 2 => (instance = prior /\ GeneratorSteps = {})
      /\ \A pos \in AbsentGeneratorFields(schema, prior, <<>>) :
            Cardinality({ k \in GeneratorSteps : trace[k].pos = pos }) = 1
      /\ \A k \in GeneratorSteps :
            trace[k].pos \in AbsentGeneratorFields(schema, prior, <<>>)

\* The part of C3 that holds of every pass, one ended by an exception
\* included: a second pass changes nothing and calls no generator, and no
\* pass calls the generator of a field twice.
SecondPassChangesNothing ==
    op = "apply_defaults" =>
      /\ passes >= 2 => (instance = prior /\ GeneratorSteps = {})
      /\ \A k, m \in GeneratorSteps : trace[k].pos = trace[m].pos => k = m

\* C4: apply_defaults never fails for a schema verify accepts, whatever the
\* mapping it is given.
C4_ApplyDefaultsNeverFails == op = "apply_defaults" => result.exc = "none"

YieldsValue(default) ==
    IF default.kind = "function" THEN CallGenerator(default.val) # PyNone
    ELSE default # PyNone

\* C9: once apply_defaults has run, validate reports no 'required' error at
\* the path of a field whose spec declares a default that yields a value.
C9_DefaultedFieldsNotReportedRequired ==
    (op = "validate" /\ passes >= 1) =>
      \A i \in Steps :
        (trace[i].ev = "field"
         /\ LET f == FieldAt(schema, instance, trace[i].pos)
            IN  /\ f.spec.kind = "dict"
                /\ "default" \in DOMAIN f.spec.val
                /\ YieldsValue(f.spec.val["default"]))
        => ~\E k \in Steps :
               /\ trace[k].ev = "error"
               /\ trace[k].pos = trace[i].pos
               /\ trace[k].note = Dotted(trace[i].pos) \o " is required."

(***************************************************************************)
(* Properties of the virtual fields                                        *)
(***************************************************************************)
\* C7: virtual returns the same object for a name on every call, and
\* has_getter (has_setter) returns whether an earlier call for the name
\* that returned normally passed a getter (a setter): false for a field
\* made with neither.
C7_SameObjectAndPresence ==
    LET name == trace[1].name
        past == DictGet(history, name, NoHistory)
    IN  /\ (op = "virtual" /\ result.exc = "none") => result.value = past.object
        /\ op = "has_getter" => (result.exc = "none" /\ result.value = past.getter)
        /\ op = "has_setter" => (result.exc = "none" /\ result.value = past.setter)

\* The part of C7 about the object returned.
SameObjectOnEveryCall ==
    (op = "virtual" /\ result.exc = "none") =>
       result.value = DictGet(history, trace[1].name, NoHistory).object

\* C10: a virtual call that fails with the argument-count error leaves the
\* schema as it was: no VirtualField is made, no getter or setter is set.
C10_FailedCallChangesNothing ==
    (op = "virtual" /\ result.exc = "ValueError") =>
       (virtuals = prior.virtuals /\ heap = prior.heap)

====
